---------------------------- MODULE Spec2Model ----------------------------
(***************************************************************************)
(* A model of the rust-indexer service (src/rust-indexer/src): the         *)
(* language registry, the tree walk with its per-language rule tables,     *)
(* the chunk hash service and the three HTTP handlers of main.rs.          *)
(*                                                                         *)
(* Text is a sequence of one-character strings.  Option<T> is a record     *)
(* with a field `some`; Result<T> is a record with a field `ok`.           *)
(***************************************************************************)
EXTENDS Integers, Sequences, FiniteSets, TLC

VARIABLES
    parsers,  \* ParserService.parsers: language identifier -> grammar handle
    fs,       \* the file system: path -> file (or NoFile)
    req,      \* request id -> the request (operation, path, ExtractRequest payload)
    pc,       \* request id -> position of the request's handler
    loc,      \* request id -> the handler's local variables
    bufs,     \* buffer id -> the `symbols` vector allocated by extract_from_tree
    result,   \* request id -> the Result returned by the ParserService method
    resp      \* request id -> the HTTP response of the handler

vars == <<parsers, fs, req, pc, loc, bufs, result, resp>>

---------------------------------------------------------------------------
(* Bounds of the model.                                                    *)

\* Longest file content, in characters, of the chunk-hash specification.
MaxLen == 4
\* Largest start_line / end_line drawn for a hash request (smallest is -1).
MaxLine == 4
\* Longest file content of the specification that runs two hash calls.
PairMaxLen == 2
\* Largest start_line / end_line of the specification that runs two hash calls.
PairMaxLine == 3
\* Width, in bits, the model gives to usize (64 in the build).
UsizeBits == 16
\* Width, in bits, the model gives to the u64 of Hasher::finish.
HashBits == 16

---------------------------------------------------------------------------
(* Option and Result.                                                      *)

None == [some |-> FALSE]
Some(v) == [some |-> TRUE, v |-> v]
UnwrapOr(o, d) == IF o.some THEN o.v ELSE d

Ok(v) == [done |-> TRUE, ok |-> TRUE, val |-> v]
Err(e) == [done |-> TRUE, ok |-> FALSE, err |-> e]
Pending == [done |-> FALSE]

Max(a, b) == IF a >= b THEN a ELSE b
Min(a, b) == IF a <= b THEN a ELSE b

\* All sequences over S of length at most n.
SeqsUpTo(S, n) == UNION {[1..k -> S] : k \in 0..n}

---------------------------------------------------------------------------
(* Files.                                                                  *)

NoFile == [exists |-> FALSE]
File(content, tree) == [exists |-> TRUE, content |-> content, tree |-> tree]

\* tokio::fs::read_to_string(..).context("Failed to read file")
ReadToString(f) == IF f.exists THEN Ok(f.content) ELSE Err("Failed to read file")

---------------------------------------------------------------------------
(* Chunk hash service: ParserService::get_chunk_hash.                      *)

Chars == {"a", "b", "\n", "\r"}

\* The byte a character of the model's alphabet is encoded as.
CharCode(c) ==
    CASE c = "\n" -> 10
      [] c = "\r" -> 13
      [] c = "a" -> 97
      [] c = "b" -> 98
      [] OTHER -> 63

\* One line of str::lines: the text up to a "\n", less the "\r" before it.
StripCR(line) ==
    IF Len(line) > 0 /\ line[Len(line)] = "\r"
    THEN SubSeq(line, 1, Len(line) - 1)
    ELSE line

RECURSIVE LinesFrom(_, _, _)
LinesFrom(s, i, cur) ==
    IF i > Len(s)
    THEN (IF cur = <<>> THEN <<>> ELSE <<cur>>)
    ELSE IF s[i] = "\n"
         THEN <<StripCR(cur)>> \o LinesFrom(s, i + 1, <<>>)
         ELSE LinesFrom(s, i + 1, Append(cur, s[i]))

\* source_code.lines().collect(): lines end at "\n" or "\r\n"; a last line
\* without a line ending is kept as it is, and an empty last line is dropped.
Lines(s) == LinesFrom(s, 1, <<>>)

RECURSIVE Join(_, _)
\* lines.join(sep)
Join(ls, sep) ==
    IF Len(ls) = 0 THEN <<>>
    ELSE IF Len(ls) = 1 THEN ls[1]
    ELSE ls[1] \o <<sep>> \o Join(Tail(ls), sep)

\* `x as usize` of an i32: sign extension, then the low bits of the width.
AsUsize(x) == x % (2 ^ UsizeBits)

\* start_line.unwrap_or(1).max(1) as usize - 1
ChunkStart(start_line) == AsUsize(Max(UnwrapOr(start_line, 1), 1)) - 1

ChunkEndNoClamp(end_line, n) == AsUsize(UnwrapOr(end_line, n))

\* end_line.unwrap_or(lines.len() as i32).min(lines.len() as i32) as usize
ChunkEnd(end_line, n) == AsUsize(Min(UnwrapOr(end_line, n), n))

RangeAllowsEmpty(start, end, n) == start >= n \/ end > n \/ start > end

\* if start >= lines.len() || end > lines.len() || start >= end
InvalidRange(start, end, n) == start >= n \/ end > n \/ start >= end

ChunkTextExclusiveEnd(lines, start, end) ==
    Join(SubSeq(lines, start + 1, end - 1), "\n")

\* lines[start..end].join("\n")
ChunkText(lines, start, end) == Join(SubSeq(lines, start + 1, end), "\n")

RECURSIVE HashBytes(_, _, _)
HashBytes(h, s, i) ==
    IF i > Len(s) THEN h
    ELSE HashBytes((h * 31 + CharCode(s[i]) + 7) % (2 ^ HashBits), s, i + 1)

\* DefaultHasher::new(), chunk.hash(&mut hasher), hasher.finish(): the keys of
\* the hasher are fixed, the bytes of the string are written in order and are
\* followed by the byte 0xff.  The mixing function stands in for SipHash.
DefaultHash(s) == (HashBytes(0, s, 1) * 31 + 255 + 7) % (2 ^ HashBits)

HexDigit(d) ==
    CASE d = 0 -> "0" [] d = 1 -> "1" [] d = 2 -> "2" [] d = 3 -> "3"
      [] d = 4 -> "4" [] d = 5 -> "5" [] d = 6 -> "6" [] d = 7 -> "7"
      [] d = 8 -> "8" [] d = 9 -> "9" [] d = 10 -> "a" [] d = 11 -> "b"
      [] d = 12 -> "c" [] d = 13 -> "d" [] d = 14 -> "e" [] OTHER -> "f"

RECURSIVE ToHex(_)
\* format!("{:x}", n): lowercase digits, no prefix, no padding.
ToHex(n) == IF n < 16 THEN <<HexDigit(n)>> ELSE Append(ToHex(n \div 16), HexDigit(n % 16))

\* get_chunk_hash after the file has been read: the field `chunk` is the
\* text handed to the hasher (None when the range is refused).
HashSource(source_code, start_line, end_line) ==
    LET lines == Lines(source_code)
        start == ChunkStart(start_line)
        end == ChunkEnd(end_line, Len(lines))
    IN  IF InvalidRange(start, end, Len(lines))
        THEN [res |-> Err("Invalid line range"), chunk |-> None]
        ELSE LET chunk == ChunkText(lines, start, end)
             IN  [res |-> Ok(ToHex(DefaultHash(chunk))), chunk |-> Some(chunk)]

\* ParserService::get_chunk_hash
GetChunkHash(f, start_line, end_line) ==
    LET src == ReadToString(f) IN
    IF ~src.ok THEN [res |-> Err(src.err), chunk |-> None]
    ELSE HashSource(src.val, start_line, end_line)

---------------------------------------------------------------------------
(* Language registry: ParserService::new and detect_language.              *)

Uppers == <<"A", "B", "C", "D", "E", "F", "G", "H", "I", "J", "K", "L", "M",
            "N", "O", "P", "Q", "R", "S", "T", "U", "V", "W", "X", "Y", "Z">>
Lowers == <<"a", "b", "c", "d", "e", "f", "g", "h", "i", "j", "k", "l", "m",
            "n", "o", "p", "q", "r", "s", "t", "u", "v", "w", "x", "y", "z">>

\* char::is_uppercase, on the letters of the model's alphabet.
IsUppercase(c) == \E i \in 1..Len(Uppers) : Uppers[i] = c

ToLowerChar(c) ==
    IF IsUppercase(c) THEN Lowers[CHOOSE i \in 1..Len(Uppers) : Uppers[i] = c] ELSE c

\* str::to_lowercase
ToLowercase(s) == [i \in 1..Len(s) |-> ToLowerChar(s[i])]

\* The last index of character c in s, 0 when there is none.
LastIndexOf(s, c) ==
    LET I == {i \in 1..Len(s) : s[i] = c} IN
    IF I = {} THEN 0 ELSE CHOOSE i \in I : \A j \in I : j <= i

RECURSIVE StripTrailingSlashes(_)
StripTrailingSlashes(p) ==
    IF Len(p) > 1 /\ p[Len(p)] = "/"
    THEN StripTrailingSlashes(SubSeq(p, 1, Len(p) - 1))
    ELSE p

\* Path::file_name: the last component of the path, none for "..".
FileName(path) ==
    LET p == StripTrailingSlashes(path)
        name == SubSeq(p, LastIndexOf(p, "/") + 1, Len(p))
    IN  IF name = <<>> \/ name = <<".", ".">> THEN None ELSE Some(name)

\* Path::extension: the part of the file name after its last dot; none when
\* the name has no dot or only a leading one.
Extension(path) ==
    LET fname == FileName(path) IN
    IF ~fname.some THEN None
    ELSE LET dot == LastIndexOf(fname.v, ".") IN
         IF dot <= 1 THEN None
         ELSE Some(SubSeq(fname.v, dot + 1, Len(fname.v)))

\* match ext.as_str() { ... } of detect_language
LanguageOfExt(ext) ==
    CASE ext = <<"r", "s">> -> Some("rust")
      [] ext \in {<<"j", "s">>, <<"j", "s", "x">>, <<"m", "j", "s">>, <<"c", "j", "s">>}
            -> Some("javascript")
      [] ext = <<"t", "s">> -> Some("typescript")
      [] ext = <<"t", "s", "x">> -> Some("tsx")
      [] ext = <<"g", "o">> -> Some("go")
      [] ext = <<"p", "y">> -> Some("python")
      [] ext = <<"j", "a", "v", "a">> -> Some("java")
      [] ext \in {<<"c", "p", "p">>, <<"c", "c">>, <<"c", "x", "x">>, <<"c">>,
                  <<"h">>, <<"h", "p", "p">>} -> Some("cpp")
      [] OTHER -> None

\* ParserService::detect_language
DetectLanguage(file_path) ==
    LET ext == Extension(file_path) IN
    IF ~ext.some THEN None ELSE LanguageOfExt(ToLowercase(ext.v))

NewParsersNoTsx ==
    [l \in {"rust", "javascript", "typescript", "go", "python", "java", "cpp"} |->
        CASE l = "rust" -> "ts_rust::language"
          [] l = "javascript" -> "ts_js::language"
          [] l = "typescript" -> "ts_ts::language_typescript"
          [] l = "go" -> "ts_go::language"
          [] l = "python" -> "ts_py::language"
          [] l = "java" -> "ts_java::language"
          [] OTHER -> "ts_cpp::language"]

\* ParserService::new: the registry, one grammar per language identifier.
NewParsers ==
    [l \in {"rust", "javascript", "typescript", "tsx", "go", "python", "java", "cpp"} |->
        CASE l = "rust" -> "ts_rust::language"
          [] l = "javascript" -> "ts_js::language"
          [] l = "typescript" -> "ts_ts::language_typescript"
          [] l = "tsx" -> "ts_ts::language_tsx"
          [] l = "go" -> "ts_go::language"
          [] l = "python" -> "ts_py::language"
          [] l = "java" -> "ts_java::language"
          [] OTHER -> "ts_cpp::language"]

\* self.parsers.get(&language_name)
GetParser(ps, language_name) ==
    IF language_name \in DOMAIN ps THEN Some(ps[language_name]) ELSE None

---------------------------------------------------------------------------
(* Tree abstraction: the tree_sitter::Node interface the walk consumes.    *)
(* A tree is a record: n nodes 1..n, node 1 the root; parent[i] < i, and   *)
(* the children of a node are its child nodes in ascending order (source   *)
(* order).  name[i] is the node's "name" field: None, or a node whose      *)
(* text decodes (ok) to `text` or does not.                                *)

NoName == [some |-> FALSE]
NameNode(ok, text) == [some |-> TRUE, ok |-> ok, text |-> text]

NodeIds(t) == [i \in 1..t.n |-> i]

\* node.child(0), node.child(1), ..., node.child(node.child_count() - 1)
Children(t, p) == SelectSeq(NodeIds(t), LAMBDA i : t.parent[i] = p)

\* node.child(i), i counted from 0
Child(t, p, i) ==
    LET cs == Children(t, p) IN IF i < Len(cs) THEN Some(cs[i + 1]) ELSE None

\* node.child_by_field_name("name")
ChildByFieldName(t, n) == t.name[n]

\* name_node.utf8_text(source.as_bytes())
Utf8Text(name_node) == IF name_node.ok THEN Ok(name_node.text) ELSE Err("Utf8Error")

Whitespace == {" ", "\t", "\n", "\r"}

RECURSIVE TrimStart(_)
TrimStart(s) == IF Len(s) > 0 /\ s[1] \in Whitespace THEN TrimStart(Tail(s)) ELSE s

RECURSIVE TrimEnd(_)
TrimEnd(s) ==
    IF Len(s) > 0 /\ s[Len(s)] \in Whitespace
    THEN TrimEnd(SubSeq(s, 1, Len(s) - 1))
    ELSE s

\* str::trim
Trim(s) == TrimEnd(TrimStart(s))

\* ParserService::extract_signature: the first line of the node's text,
\* trimmed.  It has no failing path.
ExtractSignature(t, n) ==
    LET ls == Lines(t.text[n])
    IN  Ok(Trim(IF Len(ls) = 0 THEN <<>> ELSE ls[1]))

\* Result::ok
ResultOk(r) == IF r.ok THEN Some(r.val) ELSE None

---------------------------------------------------------------------------
(* Symbol builder.                                                         *)

RECURSIVE Decimal(_)
\* format!("{}", n) of an unsigned number
Decimal(n) == IF n < 10 THEN <<HexDigit(n)>> ELSE Append(Decimal(n \div 10), HexDigit(n % 10))

\* format!("{}_{}_{}", file_path, name, node.start_position().row)
SymbolId(file_path, name, row) == file_path \o <<"_">> \o name \o <<"_">> \o Decimal(row)

LineStartZeroBased(t, n) == t.srow[n]

\* node.start_position().row as i32 + 1
LineStart(t, n) == t.srow[n] + 1

\* node.end_position().row as i32 + 1
LineEnd(t, n) == t.erow[n] + 1

\* The CodeSymbol literal pushed by the rule functions.  The field `node` is
\* not a field of CodeSymbol: it records the node the symbol was built from.
CodeSymbol(file_path, name, symbol_type, t, n, signature, exported, visibility) ==
    [id |-> SymbolId(file_path, name, t.srow[n]),
     symbol_name |-> name,
     symbol_type |-> symbol_type,
     file_path |-> file_path,
     line_start |-> LineStart(t, n),
     line_end |-> LineEnd(t, n),
     signature |-> signature,
     dependencies |-> <<>>,
     exported |-> exported,
     visibility |-> visibility,
     node |-> n]

---------------------------------------------------------------------------
(* Per-language rule tables.  Each returns Ok of the symbols it pushed     *)
(* (none or one) or the error it propagated.                               *)

\* node.child(0).map(|n| n.kind() == "visibility_modifier").unwrap_or(false)
RustExported(t, n) ==
    LET first == Child(t, n, 0)
    IN  first.some /\ t.kind[first.v] = "visibility_modifier"

GoExportedAnyUppercase(name) == \E i \in 1..Len(name) : IsUppercase(name[i])

\* name.chars().next().map(|c| c.is_uppercase()).unwrap_or(false)
GoExported(name) == Len(name) > 0 /\ IsUppercase(name[1])

RustKinds ==
    {"function_item", "impl_item", "struct_item", "enum_item", "trait_item",
     "type_item", "const_item", "static_item"}

RustType(kind) ==
    CASE kind = "function_item" -> "function"
      [] kind = "impl_item" -> "impl"
      [] kind = "struct_item" -> "struct"
      [] kind = "enum_item" -> "enum"
      [] kind = "trait_item" -> "trait"
      [] kind = "type_item" -> "type"
      [] kind = "const_item" -> "const"
      [] kind = "static_item" -> "static"
      [] OTHER -> "unknown"

\* ParserService::extract_rust_symbols
ExtractRustSymbols(t, n, file_path) ==
    IF t.kind[n] \in RustKinds /\ ChildByFieldName(t, n).some
    THEN LET name == Utf8Text(ChildByFieldName(t, n)) IN
         IF ~name.ok THEN Err(name.err)
         ELSE LET exported == RustExported(t, n)
                  signature == ResultOk(ExtractSignature(t, n))
              IN  Ok(<<CodeSymbol(file_path, name.val, RustType(t.kind[n]), t, n,
                                  signature, exported,
                                  IF exported THEN Some("public") ELSE Some("private"))>>)
    ELSE Ok(<<>>)

JsKinds ==
    {"function_declaration", "function", "method_definition", "class_declaration",
     "variable_declaration"}

JsType(kind) ==
    CASE kind \in {"function_declaration", "function"} -> "function"
      [] kind = "method_definition" -> "method"
      [] kind = "class_declaration" -> "class"
      [] kind = "variable_declaration" -> "variable"
      [] OTHER -> "unknown"

\* ParserService::extract_js_symbols
ExtractJsSymbols(t, n, file_path) ==
    IF t.kind[n] \in JsKinds /\ ChildByFieldName(t, n).some
    THEN LET name == Utf8Text(ChildByFieldName(t, n)) IN
         IF ~name.ok THEN Err(name.err)
         ELSE LET signature == ResultOk(ExtractSignature(t, n))
              IN  Ok(<<CodeSymbol(file_path, name.val, JsType(t.kind[n]), t, n,
                                  signature, FALSE, None)>>)
    ELSE Ok(<<>>)

GoKinds == {"function_declaration", "method_declaration", "type_declaration"}

GoType(kind) ==
    CASE kind = "function_declaration" -> "function"
      [] kind = "method_declaration" -> "method"
      [] kind = "type_declaration" -> "type"
      [] OTHER -> "unknown"

\* ParserService::extract_go_symbols
ExtractGoSymbols(t, n, file_path) ==
    IF t.kind[n] \in GoKinds /\ ChildByFieldName(t, n).some
    THEN LET name == Utf8Text(ChildByFieldName(t, n)) IN
         IF ~name.ok THEN Err(name.err)
         ELSE LET signature == ResultOk(ExtractSignature(t, n))
              IN  Ok(<<CodeSymbol(file_path, name.val, GoType(t.kind[n]), t, n,
                                  signature, GoExported(name.val), None)>>)
    ELSE Ok(<<>>)

PythonKinds == {"function_definition", "class_definition"}

PythonType(kind) ==
    CASE kind = "function_definition" -> "function"
      [] kind = "class_definition" -> "class"
      [] OTHER -> "unknown"

\* ParserService::extract_python_symbols
ExtractPythonSymbols(t, n, file_path) ==
    IF t.kind[n] \in PythonKinds /\ ChildByFieldName(t, n).some
    THEN LET name == Utf8Text(ChildByFieldName(t, n)) IN
         IF ~name.ok THEN Err(name.err)
         ELSE LET signature == ExtractSignature(t, n) IN
              IF ~signature.ok THEN Err(signature.err)
              ELSE Ok(<<CodeSymbol(file_path, name.val, PythonType(t.kind[n]), t, n,
                                   Some(signature.val), FALSE, None)>>)
    ELSE Ok(<<>>)

JavaKinds == {"class_declaration", "interface_declaration", "method_declaration"}

JavaType(kind) ==
    CASE kind = "class_declaration" -> "class"
      [] kind = "interface_declaration" -> "interface"
      [] kind = "method_declaration" -> "method"
      [] OTHER -> "unknown"

\* ParserService::extract_java_symbols
ExtractJavaSymbols(t, n, file_path) ==
    IF t.kind[n] \in JavaKinds /\ ChildByFieldName(t, n).some
    THEN LET name == Utf8Text(ChildByFieldName(t, n)) IN
         IF ~name.ok THEN Err(name.err)
         ELSE LET signature == ResultOk(ExtractSignature(t, n))
              IN  Ok(<<CodeSymbol(file_path, name.val, JavaType(t.kind[n]), t, n,
                                  signature, TRUE, Some("public"))>>)
    ELSE Ok(<<>>)

CppKinds == {"function_definition", "class_specifier", "namespace_definition"}

CppType(kind) ==
    CASE kind = "function_definition" -> "function"
      [] kind = "class_specifier" -> "class"
      [] kind = "namespace_definition" -> "namespace"
      [] OTHER -> "unknown"

\* ParserService::extract_cpp_symbols
ExtractCppSymbols(t, n, file_path) ==
    IF t.kind[n] \in CppKinds /\ ChildByFieldName(t, n).some
    THEN LET name == Utf8Text(ChildByFieldName(t, n)) IN
         IF ~name.ok THEN Err(name.err)
         ELSE LET signature == ExtractSignature(t, n) IN
              IF ~signature.ok THEN Err(signature.err)
              ELSE Ok(<<CodeSymbol(file_path, name.val, CppType(t.kind[n]), t, n,
                                   Some(signature.val), FALSE, None)>>)
    ELSE Ok(<<>>)

\* match language { ... } of walk_tree: the rule function of the language.
ExtractLanguageSymbols(language, t, n, file_path) ==
    CASE language = "rust" -> ExtractRustSymbols(t, n, file_path)
      [] language \in {"javascript", "typescript", "tsx"} -> ExtractJsSymbols(t, n, file_path)
      [] language = "go" -> ExtractGoSymbols(t, n, file_path)
      [] language = "python" -> ExtractPythonSymbols(t, n, file_path)
      [] language = "java" -> ExtractJavaSymbols(t, n, file_path)
      [] language = "cpp" -> ExtractCppSymbols(t, n, file_path)
      [] OTHER -> Ok(<<>>)

---------------------------------------------------------------------------
(* Traversal engine: walk_tree, extract_from_tree, extract_symbols.        *)

DescendUnlessMatched(pushed) == pushed = <<>>

\* for i in 0..node.child_count(): whether the walk goes on into the children
\* of a node whose rule function pushed `pushed`.  It always does.
Descend(pushed) == TRUE

SkipOnError(r, symbols) == Ok(symbols)

\* The `?` after the rule function in walk_tree: an error ends the walk, a
\* success leaves the pushed symbols appended to `symbols`.
Propagate(r, symbols) == IF r.ok THEN Ok(symbols \o r.val) ELSE Err(r.err)

RECURSIVE WalkTree(_, _, _, _, _)
RECURSIVE WalkChildren(_, _, _, _, _, _)

\* ParserService::walk_tree on node n.  acc is the state of the walk so far:
\* ok, the `symbols` vector, and the nodes visited, in the order of the visits.
WalkTree(t, n, language, file_path, acc) ==
    LET r == ExtractLanguageSymbols(language, t, n, file_path)
        after == Propagate(r, acc.symbols)
        seen == Append(acc.visited, n)
    IN  IF ~after.ok
        THEN [ok |-> FALSE, err |-> after.err, symbols |-> acc.symbols, visited |-> seen]
        ELSE LET here == [ok |-> TRUE, err |-> "", symbols |-> after.val, visited |-> seen]
             IN  IF Descend(IF r.ok THEN r.val ELSE <<>>)
                 THEN WalkChildren(t, Children(t, n), 1, language, file_path, here)
                 ELSE here

WalkChildren(t, cs, i, language, file_path, acc) ==
    IF i > Len(cs) THEN acc
    ELSE LET a == WalkTree(t, cs[i], language, file_path, acc)
         IN  IF ~a.ok THEN a
             ELSE WalkChildren(t, cs, i + 1, language, file_path, a)

\* ParserService::extract_from_tree: a fresh vector, then the walk from the root.
ExtractFromTree(t, language, file_path) ==
    WalkTree(t, 1, language, file_path,
             [ok |-> TRUE, err |-> "", symbols |-> <<>>, visited |-> <<>>])

\* ParserService::extract_symbols.  res is the Result returned; lang, visited
\* and collected record the language resolved, the nodes the walk visited and
\* the `symbols` vector when the call returned.
ExtractSymbols(ps, f, file_path) ==
    LET language_name == DetectLanguage(file_path)
        nothing == [lang |-> language_name, visited |-> <<>>, collected |-> <<>>]
    IN  IF ~language_name.some
        THEN [res |-> Err("Unsupported file type")] @@ nothing
        ELSE IF ~GetParser(ps, language_name.v).some
        THEN [res |-> Err("Language parser not available")] @@ nothing
        ELSE IF ~ReadToString(f).ok
        THEN [res |-> Err("Failed to read file")] @@ nothing
        ELSE LET w == ExtractFromTree(f.tree, language_name.v, file_path)
             IN  [res |-> IF w.ok THEN Ok(w.symbols) ELSE Err(w.err),
                  lang |-> language_name, visited |-> w.visited, collected |-> w.symbols]

ExtractDependenciesResolvingLanguage(ps, f, file_path) ==
    IF DetectLanguage(file_path).some /\ f.exists THEN Ok(<<>>) ELSE Err("Unsupported file type")

\* ParserService::extract_dependencies: Ok(vec![]), whatever the path.
ExtractDependencies(ps, f, file_path) == Ok(<<>>)

---------------------------------------------------------------------------
(* HTTP handlers of main.rs.  A request is the operation (the route), the  *)
(* two path parameters and the ExtractRequest payload.                     *)

NoResponse == [status |-> 0]
InternalServerError == [status |-> 500]

\* let full_path = format!("{}/{}", repo_path, file_path);
FullPath(q) == q.repo_path \o <<"/">> \o q.file_path

Request(op, repo_path, file_path, start_line, end_line) ==
    [op |-> op, repo_path |-> repo_path, file_path |-> file_path,
     start_line |-> start_line, end_line |-> end_line]

\* async fn extract_symbols / extract_dependencies: ExtractResponse or 500.
ExtractResponse(res) ==
    IF res.ok
    THEN [status |-> 200, body |-> [symbols |-> res.val, success |-> TRUE]]
    ELSE InternalServerError

\* async fn get_chunk_hash: {"hash": hash, "success": true} or 500.
HashResponse(res) ==
    IF res.ok
    THEN [status |-> 200, body |-> [hash |-> res.val, success |-> TRUE]]
    ELSE InternalServerError

InitLoc ==
    [lang |-> None, grammar |-> None, source |-> None, tree |-> None,
     stack |-> <<>>, visited |-> <<>>, chunk |-> None]

SharedBuf(r) == 1

\* let mut symbols = Vec::new() of extract_from_tree: each call has its own.
BufOf(r) == r

\* The whole of the handler get_chunk_hash for request r.
HandleHash(r) ==
    /\ pc[r] = "ready"
    /\ req[r].op = "hash"
    /\ LET out == GetChunkHash(fs[FullPath(req[r])], req[r].start_line, req[r].end_line)
       IN  /\ result' = [result EXCEPT ![r] = out.res]
           /\ resp' = [resp EXCEPT ![r] = HashResponse(out.res)]
           /\ loc' = [loc EXCEPT ![r].chunk = out.chunk]
    /\ pc' = [pc EXCEPT ![r] = "done"]
    /\ UNCHANGED <<parsers, fs, req, bufs>>

\* The whole of the handler extract_symbols for request r.
HandleExtract(r) ==
    /\ pc[r] = "ready"
    /\ req[r].op = "extract"
    /\ LET out == ExtractSymbols(parsers, fs[FullPath(req[r])], FullPath(req[r]))
       IN  /\ result' = [result EXCEPT ![r] = out.res]
           /\ resp' = [resp EXCEPT ![r] = ExtractResponse(out.res)]
           /\ loc' = [loc EXCEPT ![r].lang = out.lang, ![r].visited = out.visited]
           /\ bufs' = [bufs EXCEPT ![BufOf(r)] = out.collected]
    /\ pc' = [pc EXCEPT ![r] = "done"]
    /\ UNCHANGED <<parsers, fs, req>>

\* The whole of the handler extract_dependencies for request r.
HandleDeps(r) ==
    /\ pc[r] = "ready"
    /\ req[r].op = "deps"
    /\ LET res == ExtractDependencies(parsers, fs[FullPath(req[r])], FullPath(req[r]))
       IN  /\ result' = [result EXCEPT ![r] = res]
           /\ resp' = [resp EXCEPT ![r] = ExtractResponse(res)]
    /\ pc' = [pc EXCEPT ![r] = "done"]
    /\ UNCHANGED <<parsers, fs, req, loc, bufs>>

\* The state of the service with the requests `rs` received and the files `files`.
Start(rs, files) ==
    /\ parsers = NewParsers
    /\ fs = files
    /\ req = rs
    /\ pc = [r \in DOMAIN rs |-> "ready"]
    /\ loc = [r \in DOMAIN rs |-> InitLoc]
    /\ bufs = [r \in DOMAIN rs |-> <<>>]
    /\ result = [r \in DOMAIN rs |-> Pending]
    /\ resp = [r \in DOMAIN rs |-> NoResponse]

---------------------------------------------------------------------------
(* The handlers step by step, for requests that run concurrently: a step   *)
(* is the code between two points where the request reads the registry or  *)
(* the file system, and each visit of a node by the walk.                  *)

\* The request ends: the handler turns the Result into the response.
Finish(r, res) ==
    /\ result' = [result EXCEPT ![r] = res]
    /\ resp' = [resp EXCEPT ![r] =
                   IF req[r].op = "hash" THEN HashResponse(res) ELSE ExtractResponse(res)]
    /\ pc' = [pc EXCEPT ![r] = "done"]

\* extract_symbols: detect_language(file_path).context("Unsupported file type")?
StepDetect(r) ==
    /\ pc[r] = "ready"
    /\ req[r].op = "extract"
    /\ LET language_name == DetectLanguage(FullPath(req[r])) IN
       IF language_name.some
       THEN /\ loc' = [loc EXCEPT ![r].lang = language_name]
            /\ pc' = [pc EXCEPT ![r] = "lookup"]
            /\ UNCHANGED <<result, resp>>
       ELSE /\ Finish(r, Err("Unsupported file type"))
            /\ UNCHANGED loc
    /\ UNCHANGED <<parsers, fs, req, bufs>>

\* extract_symbols: self.parsers.get(..).context("Language parser not available")?
StepLookup(r) ==
    /\ pc[r] = "lookup"
    /\ LET language == GetParser(parsers, loc[r].lang.v) IN
       IF language.some
       THEN /\ loc' = [loc EXCEPT ![r].grammar = language]
            /\ pc' = [pc EXCEPT ![r] = "read"]
            /\ UNCHANGED <<result, resp>>
       ELSE /\ Finish(r, Err("Language parser not available"))
            /\ UNCHANGED loc
    /\ UNCHANGED <<parsers, fs, req, bufs>>

\* extract_symbols: read_to_string(file_path).await.context("Failed to read file")?
StepRead(r) ==
    /\ pc[r] = "read"
    /\ LET source_code == ReadToString(fs[FullPath(req[r])]) IN
       IF source_code.ok
       THEN /\ loc' = [loc EXCEPT ![r].source = Some(source_code.val)]
            /\ pc' = [pc EXCEPT ![r] = "parse"]
            /\ UNCHANGED <<result, resp>>
       ELSE /\ Finish(r, Err(source_code.err))
            /\ UNCHANGED loc
    /\ UNCHANGED <<parsers, fs, req, bufs>>

\* extract_symbols: the parse, and extract_from_tree up to the call of
\* walk_tree on the root: a fresh `symbols` vector.
StepParse(r) ==
    /\ pc[r] = "parse"
    /\ loc' = [loc EXCEPT ![r].tree = Some(fs[FullPath(req[r])].tree), ![r].stack = <<1>>]
    /\ bufs' = [bufs EXCEPT ![BufOf(r)] = <<>>]
    /\ pc' = [pc EXCEPT ![r] = "walk"]
    /\ UNCHANGED <<parsers, fs, req, result, resp>>

\* walk_tree on the next node: the rule function of the language, then the
\* children of the node are the next to be visited, in their order.
StepWalk(r) ==
    /\ pc[r] = "walk"
    /\ loc[r].stack # <<>>
    /\ LET t == loc[r].tree.v
           n == Head(loc[r].stack)
           pushed == ExtractLanguageSymbols(loc[r].lang.v, t, n, FullPath(req[r]))
           after == Propagate(pushed, bufs[BufOf(r)])
       IN  IF after.ok
           THEN /\ bufs' = [bufs EXCEPT ![BufOf(r)] = after.val]
                /\ loc' = [loc EXCEPT
                      ![r].stack = (IF Descend(IF pushed.ok THEN pushed.val ELSE <<>>)
                                    THEN Children(t, n) ELSE <<>>) \o Tail(loc[r].stack),
                      ![r].visited = Append(loc[r].visited, n)]
                /\ UNCHANGED <<pc, result, resp>>
           ELSE /\ Finish(r, Err(after.err))
                /\ loc' = [loc EXCEPT ![r].visited = Append(loc[r].visited, n)]
                /\ UNCHANGED bufs
    /\ UNCHANGED <<parsers, fs, req>>

\* extract_from_tree and extract_symbols return Ok(symbols).
StepReturn(r) ==
    /\ pc[r] = "walk"
    /\ loc[r].stack = <<>>
    /\ Finish(r, Ok(bufs[BufOf(r)]))
    /\ UNCHANGED <<parsers, fs, req, loc, bufs>>

\* extract_dependencies
StepDeps(r) ==
    /\ pc[r] = "ready"
    /\ req[r].op = "deps"
    /\ Finish(r, ExtractDependencies(parsers, fs[FullPath(req[r])], FullPath(req[r])))
    /\ UNCHANGED <<parsers, fs, req, loc, bufs>>

\* get_chunk_hash: read_to_string(file_path).await.context("Failed to read file")?
StepHashRead(r) ==
    /\ pc[r] = "ready"
    /\ req[r].op = "hash"
    /\ LET source_code == ReadToString(fs[FullPath(req[r])]) IN
       IF source_code.ok
       THEN /\ loc' = [loc EXCEPT ![r].source = Some(source_code.val)]
            /\ pc' = [pc EXCEPT ![r] = "hash"]
            /\ UNCHANGED <<result, resp>>
       ELSE /\ Finish(r, Err(source_code.err))
            /\ UNCHANGED loc
    /\ UNCHANGED <<parsers, fs, req, bufs>>

\* get_chunk_hash: the lines, the range and the hash.
StepHash(r) ==
    /\ pc[r] = "hash"
    /\ LET out == HashSource(loc[r].source.v, req[r].start_line, req[r].end_line)
       IN  /\ Finish(r, out.res)
           /\ loc' = [loc EXCEPT ![r].chunk = out.chunk]
    /\ UNCHANGED <<parsers, fs, req, bufs>>

---------------------------------------------------------------------------
(* Inputs: trees.                                                          *)

\* The kind of the root node of a parse.
RootKind(language) ==
    CASE language \in {"rust", "go"} -> "source_file"
      [] language = "python" -> "module"
      [] language = "cpp" -> "translation_unit"
      [] OTHER -> "program"

\* One kind of the language's rule table.
MatchedKind(language) ==
    CASE language = "rust" -> "function_item"
      [] language \in {"javascript", "typescript", "tsx"} -> "class_declaration"
      [] language = "go" -> "function_declaration"
      [] language = "python" -> "function_definition"
      [] language = "java" -> "method_declaration"
      [] OTHER -> "class_specifier"

\* The text of every node of the model's trees.
NodeText == <<"a", " ", "\r", "\n", "b">>

\* Largest number of nodes of a tree drawn for its shape.
MaxNodes == 4
\* Largest row of a tree drawn for its rows.
MaxRow == 2

\* The parent functions of the trees of n nodes.
Shapes(n) == {p \in [1..n -> 0..(n - 1)] : p[1] = 0 /\ \A i \in 2..n : p[i] >= 1 /\ p[i] < i}

\* A tree whose nodes other than the root have the (kind, name) of prof and
\* the rows of rows; the root is the language's root node over all rows.
Tree(language, parent, prof, rows) ==
    LET n == Len(parent) IN
    [n |-> n,
     parent |-> parent,
     kind |-> [i \in 1..n |-> IF i = 1 THEN RootKind(language) ELSE prof[i][1]],
     name |-> [i \in 1..n |-> IF i = 1 THEN NoName ELSE prof[i][2]],
     srow |-> [i \in 1..n |-> rows[i][1]],
     erow |-> [i \in 1..n |-> rows[i][2]],
     text |-> [i \in 1..n |-> NodeText]]

NoRows(n) == [i \in 1..n |-> <<0, 0>>]

\* The (kind, name) of a node of a tree drawn for its shape: unmatched, or
\* matched with no name field, a name that decodes or a name that does not.
ShapeProfiles(language) ==
    {<<"identifier", NoName>>,
     <<MatchedKind(language), NoName>>,
     <<MatchedKind(language), NameNode(TRUE, <<"f">>)>>,
     <<MatchedKind(language), NameNode(FALSE, <<>>)>>}

\* Shapes of five nodes: two subtrees of the root, the first with a child
\* numbered after the second; a chain under the root beside a leaf.
DeepShapes == {<<0, 1, 1, 2, 3>>, <<0, 1, 1, 2, 2>>, <<0, 1, 2, 3, 1>>}

\* The shapes of the trees drawn for their rows, kinds and names: a root
\* with a child, with a child and a grandchild, and with two children.
SmallShapes == {<<0, 1>>, <<0, 1, 2>>, <<0, 1, 1>>}

\* Trees of matched, named nodes over every assignment of rows in which a
\* node starts no later than it ends and lies within its parent.
RowTrees(language) ==
    LET ivals == {iv \in (0..MaxRow) \X (0..MaxRow) : iv[1] <= iv[2]}
        prof(n) == [i \in 2..n |-> <<MatchedKind(language), NameNode(TRUE, <<"f">>)>>]
        rowsOf(p) == {rr \in [1..Len(p) -> ivals] :
                        /\ rr[1] = <<0, MaxRow>>
                        /\ \A i \in 2..Len(p) :
                              rr[p[i]][1] <= rr[i][1] /\ rr[i][2] <= rr[p[i]][2]}
    IN  UNION {{Tree(language, p, prof(Len(p)), rr) : rr \in rowsOf(p)} : p \in SmallShapes}

\* Trees whose nodes are visibility modifiers, identifiers or matched nodes
\* with names of either case, or the empty name of a missing node.
KindTrees(language) ==
    LET profs == {<<"visibility_modifier", NoName>>, <<"identifier", NoName>>}
                 \cup {<<MatchedKind(language), NameNode(TRUE, nm)>> :
                          nm \in {<<"f">>, <<"B">>, <<>>, <<"_", "X">>}}
    IN  UNION {{Tree(language, p, prof, NoRows(Len(p))) : prof \in [2..Len(p) -> profs]}
               : p \in SmallShapes}

AllKinds ==
    RustKinds \cup JsKinds \cup GoKinds \cup PythonKinds \cup JavaKinds \cup CppKinds
    \cup {"visibility_modifier", "identifier"}

\* A root and one child of any kind, with or without a name.
TableTrees(language) ==
    {Tree(language, <<0, 1>>, [i \in {2} |-> <<k, nm>>], NoRows(2)) :
        k \in AllKinds, nm \in {NoName, NameNode(TRUE, <<"f">>)}}

---------------------------------------------------------------------------
(* Inputs: paths and files.                                                *)

RepoPath == <<"r">>

\* a.<ext>
Named(ext) == <<"a", ".">> \o ext

\* The extensions of the table of detect_language.
TableExts ==
    {<<"r", "s">>, <<"j", "s">>, <<"j", "s", "x">>, <<"m", "j", "s">>, <<"c", "j", "s">>,
     <<"t", "s">>, <<"t", "s", "x">>, <<"g", "o">>, <<"p", "y">>, <<"j", "a", "v", "a">>,
     <<"c", "p", "p">>, <<"c", "c">>, <<"c", "x", "x">>, <<"c">>, <<"h">>, <<"h", "p", "p">>}

\* File paths: every extension of the table, extensions in upper and mixed
\* case, extensions outside the table, names with no dot, with a leading dot
\* only, with an empty extension, with a dot in a directory name only, and
\* with two dots.
FilePaths ==
    {Named(e) : e \in TableExts}
    \cup {Named(<<"R", "S">>), Named(<<"P", "y">>), Named(<<"T", "S", "X">>),
          Named(<<"t", "x", "t">>), Named(<<"r", "b">>), Named(<<"r", "s", "x">>),
          <<"m", "k">>, <<".", "r", "s">>, <<"a", ".">>,
          <<"d", ".", "r", "s", "/", "x">>, <<"d", "/", ".", "g", "o">>,
          <<"a", ".", "r", "s", ".", "b", "a", "k">>, <<"a", ".", "b", ".", "g", "o">>}

\* One file path for each language identifier.
LanguagePaths ==
    {Named(<<"r", "s">>), Named(<<"j", "s">>), Named(<<"t", "s">>), Named(<<"t", "s", "x">>),
     Named(<<"g", "o">>), Named(<<"p", "y">>), Named(<<"j", "a", "v", "a">>),
     Named(<<"c", "p", "p">>)}

\* A root and a matched, named child, for a path whose language is `lang`
\* (an Option); a root alone when there is none.
SmallTree(lang) ==
    IF lang.some
    THEN Tree(lang.v, <<0, 1>>,
              [i \in {2} |-> <<MatchedKind(lang.v), NameNode(TRUE, <<"f">>)>>], NoRows(2))
    ELSE Tree("", <<0>>, <<>>, NoRows(1))

\* The file contents of at most n characters.
Contents(n) == SeqsUpTo(Chars, n)

\* Some(v) for the v of a set, and None.
Options(S) == {None} \cup {Some(v) : v \in S}

---------------------------------------------------------------------------
(* Specification SpecHash: one get_chunk_hash request, over every file     *)
(* content and every pair of bounds.                                       *)

InitHash ==
    \E file \in {NoFile} \cup {File(c, SmallTree(None)) : c \in Contents(MaxLen)},
       sl \in Options(-1..MaxLine), el \in Options(-1..MaxLine) :
        LET q == Request("hash", RepoPath, Named(<<"r", "s">>), sl, el)
        IN  Start([r \in {1} |-> q], [p \in {FullPath(q)} |-> file])

NextHash == \E r \in DOMAIN req : HandleHash(r)

SpecHash == InitHash /\ [][NextHash]_vars

---------------------------------------------------------------------------
(* Specification SpecExtract: one extract_symbols or extract_dependencies  *)
(* request over every path, with a small file or no file; and one          *)
(* extract_symbols request over every tree, for one path of each language. *)

\* The service with one request `op` for file_path, whose file is `file`.
StartOne(op, file_path, file) ==
    LET q == Request(op, RepoPath, file_path, None, None)
    IN  Start([r \in {1} |-> q], [p \in {FullPath(q)} |-> file])

InitExtract ==
    \/ \E fp \in FilePaths, op \in {"extract", "deps"} :
       \E file \in {NoFile, File(<<>>, SmallTree(DetectLanguage(fp)))} :
           StartOne(op, fp, file)
    \/ \E fp \in LanguagePaths :
       \E t \in TableTrees(DetectLanguage(fp).v) \cup KindTrees(DetectLanguage(fp).v)
                \cup RowTrees(DetectLanguage(fp).v) :
           StartOne("extract", fp, File(<<>>, t))
    \/ \E fp \in LanguagePaths :
       \E parent \in UNION {Shapes(n) : n \in 1..MaxNodes} \cup DeepShapes :
       \E prof \in [2..Len(parent) -> ShapeProfiles(DetectLanguage(fp).v)] :
           StartOne("extract", fp,
                    File(<<>>, Tree(DetectLanguage(fp).v, parent, prof,
                                    NoRows(Len(parent)))))

NextExtract ==
    \/ \E r \in DOMAIN req : HandleExtract(r)
    \/ \E r \in DOMAIN req : HandleDeps(r)

SpecExtract == InitExtract /\ [][NextExtract]_vars

---------------------------------------------------------------------------
(* Specification SpecHashPair: a get_chunk_hash request, an extraction     *)
(* request, and a second get_chunk_hash request, handled in this order, on *)
(* two files with the same lines.                                          *)

PairChars == {"a", "\n", "\r"}
PairContents == SeqsUpTo(PairChars, PairMaxLen)
OtherPath == <<"b", ".", "r", "s">>

\* Every request received before r has been answered.
InOrder(r) == \A q \in DOMAIN req : q < r => pc[q] = "done"

InitHashPair ==
    \E c1 \in PairContents :
    \E c2 \in {c \in PairContents : Lines(c) = Lines(c1)} :
    \E sl1 \in Options(0..PairMaxLine), el1 \in Options(0..PairMaxLine),
       sl2 \in Options(0..PairMaxLine), el2 \in Options(0..PairMaxLine) :
        LET q1 == Request("hash", RepoPath, Named(<<"r", "s">>), sl1, el1)
            q2 == Request("extract", RepoPath, Named(<<"r", "s">>), None, None)
            q3 == Request("hash", RepoPath, OtherPath, sl2, el2)
        IN  Start(<<q1, q2, q3>>,
                  [p \in {FullPath(q1), FullPath(q3)} |->
                      File(IF p = FullPath(q1) THEN c1 ELSE c2, SmallTree(Some("rust")))])

NextHashPair ==
    \/ \E r \in DOMAIN req : InOrder(r) /\ HandleHash(r)
    \/ \E r \in DOMAIN req : InOrder(r) /\ HandleExtract(r)

SpecHashPair == InitHashPair /\ [][NextHashPair]_vars

---------------------------------------------------------------------------
(* Claims about the chunk hash service.                                    *)

HashRequests == {r \in DOMAIN req : req[r].op = "hash"}
Answered(r) == pc[r] = "done"
FileOf(r) == fs[FullPath(req[r])]
\* The lines of the file of request r, and their number.
LinesOf(r) == Lines(FileOf(r).content)
TotalLines(r) == Len(LinesOf(r))
\* start_line, 1 when absent, raised to at least 1.
FirstLine(r) == Max(UnwrapOr(req[r].start_line, 1), 1)
\* end_line, the number of lines when absent, lowered to at most that number.
LastLine(r) == Min(UnwrapOr(req[r].end_line, TotalLines(r)), TotalLines(r))
InvalidRangeError(r) ==
    /\ result[r] = Err("Invalid line range")
    /\ resp[r] = InternalServerError

\* C1, as stated: get_chunk_hash fails with the invalid-range error and
\* returns no hash whenever start_line is greater than the number of lines
\* of the file, or start_line >= end_line after defaulting and clamping.
C1_AsStated ==
    \A r \in HashRequests :
        (/\ Answered(r)
         /\ FileOf(r).exists
         /\ (FirstLine(r) > TotalLines(r) \/ FirstLine(r) >= LastLine(r)))
        => InvalidRangeError(r)

\* C1, amended: get_chunk_hash on a readable file fails with the
\* invalid-range error and returns no hash exactly when start_line is greater
\* than the number of lines or greater than end_line, after defaulting and
\* clamping; a range of one line (start_line = end_line) is hashed.
C1_InvalidRange ==
    \A r \in HashRequests :
        (Answered(r) /\ FileOf(r).exists)
        => /\ (FirstLine(r) > TotalLines(r) \/ FirstLine(r) > LastLine(r))
                <=> InvalidRangeError(r)
           /\ ~InvalidRangeError(r) => (result[r].ok /\ resp[r].status = 200)

\* A request whose clamped bounds cross within the file has been refused.
C1_Witness ==
    \E r \in HashRequests :
        /\ Answered(r)
        /\ FileOf(r).exists
        /\ FirstLine(r) <= TotalLines(r)
        /\ LastLine(r) >= 1
        /\ FirstLine(r) > LastLine(r)
        /\ InvalidRangeError(r)

RECURSIVE OffsetOfLine(_, _, _)
\* The number of characters of the lines s..(i - 1), each with its separator.
OffsetOfLine(ls, s, i) ==
    IF i <= s THEN 0 ELSE OffsetOfLine(ls, s, i - 1) + Len(ls[i - 1]) + 1

\* c is the lines s..e of ls, each followed by one "\n" but the last.
IsLinesJoined(c, ls, s, e) ==
    /\ Len(c) = OffsetOfLine(ls, s, e + 1) - 1
    /\ \A i \in s..e :
          /\ \A j \in 1..Len(ls[i]) : c[OffsetOfLine(ls, s, i) + j] = ls[i][j]
          /\ i < e => c[OffsetOfLine(ls, s, i + 1)] = "\n"

\* C4: when get_chunk_hash succeeds, the text it hashes is exactly the lines
\* s..e of the file (1-based, both ends included) joined by single newlines
\* with none at the end, s and e being the defaulted and clamped bounds; the
\* response is the hash of that text.
C4_HashedText ==
    \A r \in HashRequests :
        (Answered(r) /\ result[r].ok)
        => /\ 1 <= FirstLine(r) /\ FirstLine(r) <= LastLine(r)
           /\ LastLine(r) <= TotalLines(r)
           /\ loc[r].chunk.some
           /\ IsLinesJoined(loc[r].chunk.v, LinesOf(r), FirstLine(r), LastLine(r))
           /\ resp[r].body.hash = ToHex(DefaultHash(loc[r].chunk.v))

\* A hash of several lines of a file that has a line before them.
C4_Witness ==
    \E r \in HashRequests :
        /\ Answered(r) /\ result[r].ok
        /\ FirstLine(r) >= 2
        /\ LastLine(r) > FirstLine(r)
        /\ LinesOf(r)[1] # <<>>
        /\ loc[r].chunk.v # <<>>

\* The two requests have the same bounds after defaulting and clamping.
EquivalentBounds(r1, r2) ==
    /\ FirstLine(r1) = FirstLine(r2)
    /\ LastLine(r1) = LastLine(r2)

\* C5: two get_chunk_hash calls on files with the same lines return the same
\* hex string (or both fail) whenever their bounds are the same after
\* defaulting and clamping, whatever ran between them.
C5_Deterministic ==
    \A r1 \in HashRequests, r2 \in HashRequests :
        (/\ Answered(r1) /\ Answered(r2)
         /\ LinesOf(r1) = LinesOf(r2)
         /\ EquivalentBounds(r1, r2))
        => /\ result[r1] = result[r2]
           /\ resp[r1] = resp[r2]

\* Two successful calls on different files with the same lines, one with
\* absent bounds and one with bounds outside the file.
C5_Witness ==
    \E r1 \in HashRequests, r2 \in HashRequests :
        /\ Answered(r1) /\ Answered(r2)
        /\ FileOf(r1).content # FileOf(r2).content
        /\ req[r1].start_line = None /\ req[r1].end_line = None
        /\ req[r2].start_line = Some(0)
        /\ req[r2].end_line.some /\ req[r2].end_line.v > TotalLines(r2)
        /\ result[r1].ok /\ resp[r1] = resp[r2]

---------------------------------------------------------------------------
(* Claims about symbol extraction.                                         *)

ExtractRequests == {r \in DOMAIN req : req[r].op = "extract"}
DepsRequests == {r \in DOMAIN req : req[r].op = "deps"}
TreeOf(r) == FileOf(r).tree

\* The kinds of the rule table of a language.
TableKinds(language) ==
    CASE language = "rust" -> RustKinds
      [] language \in {"javascript", "typescript", "tsx"} -> JsKinds
      [] language = "go" -> GoKinds
      [] language = "python" -> PythonKinds
      [] language = "java" -> JavaKinds
      [] language = "cpp" -> CppKinds
      [] OTHER -> {}

\* The nodes of a kind of the rule table that have a name field.
MatchedNamed(t, language) ==
    {n \in 1..t.n : t.kind[n] \in TableKinds(language) /\ t.name[n].some}

\* Those of them whose name does not decode.
Undecodable(t, language) == {n \in MatchedNamed(t, language) : ~t.name[n].ok}

RECURSIVE IsAncestor(_, _, _)
\* a is a proper ancestor of b.
IsAncestor(t, a, b) ==
    /\ t.parent[b] # 0
    /\ (t.parent[b] = a \/ IsAncestor(t, a, t.parent[b]))

RECURSIVE PathTo(_, _)
\* The nodes from the root to n.
PathTo(t, n) == IF t.parent[n] = 0 THEN <<n>> ELSE Append(PathTo(t, t.parent[n]), n)

\* a comes before b in pre-order: a is an ancestor of b, or where the paths
\* from the root to a and to b part, the one to a takes the earlier child.
Before(t, a, b) ==
    /\ a # b
    /\ ~IsAncestor(t, b, a)
    /\ \/ IsAncestor(t, a, b)
       \/ LET pa == PathTo(t, a)
              pb == PathTo(t, b)
              k == CHOOSE i \in 1..Min(Len(pa), Len(pb)) :
                      pa[i] # pb[i] /\ \A j \in 1..(i - 1) : pa[j] = pb[j]
          IN  pa[k] < pb[k]

\* An extraction request that got as far as the walk.
Walked(r) ==
    /\ r \in ExtractRequests
    /\ Answered(r)
    /\ FileOf(r).exists
    /\ loc[r].lang.some

\* C2: the sequence extract_symbols returns is the pre-order listing of the
\* nodes whose kind is in the language's rule table and that have a name
\* field: one symbol for each, none twice, none pruned under a matched
\* ancestor; matched nodes with no name field are skipped without an error.
C2_PreOrder ==
    \A r \in ExtractRequests :
        Walked(r) =>
            LET t == TreeOf(r)
                want == MatchedNamed(t, loc[r].lang.v)
            IN  /\ Undecodable(t, loc[r].lang.v) = {} => result[r].ok
                /\ result[r].ok =>
                      LET syms == result[r].val IN
                      /\ resp[r] = [status |-> 200,
                                    body |-> [symbols |-> syms, success |-> TRUE]]
                      /\ {syms[i].node : i \in 1..Len(syms)} = want
                      /\ Len(syms) = Cardinality(want)
                      /\ \A i \in 1..Len(syms), j \in 1..Len(syms) :
                            i < j => Before(t, syms[i].node, syms[j].node)

\* Three symbols, one of a node nested in a matched node and listed before
\* a node of a lower number, from a tree with a matched node without a name.
C2_Witness ==
    \E r \in ExtractRequests :
        /\ Walked(r) /\ result[r].ok
        /\ LET syms == result[r].val
               t == TreeOf(r)
           IN  /\ Len(syms) >= 3
               /\ \E i \in 1..Len(syms), j \in 1..Len(syms) :
                     i < j /\ syms[i].node > syms[j].node
               /\ \E i \in 1..Len(syms), j \in 1..Len(syms) :
                     IsAncestor(t, syms[i].node, syms[j].node)
               /\ \E n \in 1..t.n :
                     t.kind[n] \in TableKinds(loc[r].lang.v) /\ ~t.name[n].some

\* The first node, in pre-order, whose name does not decode.
FirstUndecodable(t, language) ==
    CHOOSE f \in Undecodable(t, language) :
        \A g \in Undecodable(t, language) \ {f} : Before(t, f, g)

\* C3: if the name of a matched node does not decode, extract_symbols ends
\* with an error and the response carries no symbols; the walk visited the
\* nodes up to the first such node, in pre-order, and no node after it.
C3_FailFast ==
    \A r \in ExtractRequests :
        (Walked(r) /\ Undecodable(TreeOf(r), loc[r].lang.v) # {}) =>
            LET t == TreeOf(r)
                f == FirstUndecodable(t, loc[r].lang.v)
                seen == loc[r].visited
            IN  /\ result[r] = Err("Utf8Error")
                /\ resp[r] = InternalServerError
                /\ {seen[i] : i \in 1..Len(seen)} = {f} \cup {n \in 1..t.n : Before(t, n, f)}
                /\ seen[Len(seen)] = f
                /\ \A i \in 1..Len(seen), j \in 1..Len(seen) :
                      i < j => Before(t, seen[i], seen[j])

\* A walk that failed with symbols collected and nodes left to visit.
C3_Witness ==
    \E r \in ExtractRequests :
        /\ Walked(r)
        /\ Undecodable(TreeOf(r), loc[r].lang.v) # {}
        /\ ~result[r].ok
        /\ Len(bufs[BufOf(r)]) >= 1
        /\ Len(loc[r].visited) < TreeOf(r).n
        /\ resp[r] = InternalServerError

\* C6: every symbol has line_start = start row + 1 and line_end = end row + 1
\* of its node, so 1 <= line_start <= line_end; of two matched nodes, one
\* nested in the other, both symbols are returned and the inner line range
\* lies within the outer one.
C6_LineRanges ==
    \A r \in ExtractRequests :
        (Walked(r) /\ result[r].ok) =>
            LET t == TreeOf(r)
                syms == result[r].val
                want == MatchedNamed(t, loc[r].lang.v)
            IN  /\ \A i \in 1..Len(syms) :
                      /\ syms[i].line_start = t.srow[syms[i].node] + 1
                      /\ syms[i].line_end = t.erow[syms[i].node] + 1
                      /\ 1 <= syms[i].line_start
                      /\ syms[i].line_start <= syms[i].line_end
                /\ \A a \in want, b \in want :
                      IsAncestor(t, a, b) =>
                          \E i \in 1..Len(syms), j \in 1..Len(syms) :
                              /\ syms[i].node = a /\ syms[j].node = b
                              /\ syms[i].line_start <= syms[j].line_start
                              /\ syms[j].line_end <= syms[i].line_end

\* Two symbols, the inner one on fewer lines than the outer one and not on
\* its first line.
C6_Witness ==
    \E r \in ExtractRequests :
        /\ Walked(r) /\ result[r].ok
        /\ LET syms == result[r].val IN
           \E i \in 1..Len(syms), j \in 1..Len(syms) :
               /\ IsAncestor(TreeOf(r), syms[i].node, syms[j].node)
               /\ syms[i].line_start < syms[j].line_start
               /\ syms[j].line_end < syms[i].line_end
               /\ syms[j].line_start = syms[j].line_end

\* The identifier the specification documents for a lowercased extension.
DocumentedLanguage(ext) ==
    CASE ext = <<"r", "s">> -> "rust"
      [] ext \in {<<"j", "s">>, <<"j", "s", "x">>, <<"m", "j", "s">>, <<"c", "j", "s">>}
            -> "javascript"
      [] ext = <<"t", "s">> -> "typescript"
      [] ext = <<"t", "s", "x">> -> "tsx"
      [] ext = <<"g", "o">> -> "go"
      [] ext = <<"p", "y">> -> "python"
      [] ext = <<"j", "a", "v", "a">> -> "java"
      [] OTHER -> "cpp"

\* The lowercased extension of the path of request r (an Option).
LowerExt(r) ==
    LET ext == Extension(FullPath(req[r]))
    IN  IF ext.some THEN Some(ToLowercase(ext.v)) ELSE None

UnsupportedLanguageError(r) ==
    /\ result[r].done /\ ~result[r].ok
    /\ result[r].err \in {"Unsupported file type", "Language parser not available"}

\* C7: extract_symbols fails with an unsupported-language error exactly when
\* the lowercased extension of the path is absent or not in the table; for
\* an extension of the table the language resolved is the documented one,
\* the registry holds a grammar for it, and the failure "no grammar for the
\* identifier" does not occur.
C7_Languages ==
    \A r \in ExtractRequests :
        Answered(r) =>
            LET ext == LowerExt(r)
                supported == ext.some /\ ext.v \in TableExts
            IN  /\ UnsupportedLanguageError(r) <=> ~supported
                /\ result[r] # Err("Language parser not available")
                /\ supported =>
                      /\ loc[r].lang = Some(DocumentedLanguage(ext.v))
                      /\ DocumentedLanguage(ext.v) \in DOMAIN parsers
                /\ ~supported => loc[r].lang = None

\* A path with the extension TSX, in capitals, resolved to tsx and extracted.
C7_Witness ==
    \E r \in ExtractRequests :
        /\ Answered(r)
        /\ Extension(FullPath(req[r])) = Some(<<"T", "S", "X">>)
        /\ loc[r].lang = Some("tsx")
        /\ result[r].ok

\* The first child of node n (an Option).
FirstChild(t, n) ==
    LET C == {c \in 1..t.n : t.parent[c] = n}
    IN  IF C = {} THEN None ELSE Some(CHOOSE c \in C : \A d \in C : c <= d)

\* C8: exported and visibility of a symbol depend on the language and the
\* matched node alone.  rust: exported iff the first child of the node is a
\* visibility modifier, visibility "public" or "private" accordingly; go:
\* exported iff the first character of the name is uppercase, no visibility;
\* java: exported and "public"; the other languages: not exported, no
\* visibility.
C8_Exported ==
    \A r \in ExtractRequests :
        (Walked(r) /\ result[r].ok) =>
            LET t == TreeOf(r)
                syms == result[r].val
                language == loc[r].lang.v
            IN  \A i \in 1..Len(syms) :
                    LET sy == syms[i]
                        first == FirstChild(t, sy.node)
                        name == t.name[sy.node].text
                    IN  CASE language = "rust" ->
                               /\ sy.exported <=>
                                     (first.some /\ t.kind[first.v] = "visibility_modifier")
                               /\ sy.visibility =
                                     (IF sy.exported THEN Some("public") ELSE Some("private"))
                          [] language = "go" ->
                               /\ sy.exported <=> (Len(name) > 0 /\ IsUppercase(name[1]))
                               /\ sy.visibility = None
                          [] language = "java" ->
                               sy.exported /\ sy.visibility = Some("public")
                          [] OTHER ->
                               ~sy.exported /\ sy.visibility = None

\* A go symbol that is not exported, its name having an uppercase letter
\* after the first character, nested in an exported one; and to the same
\* effect a rust symbol.
C8_Witness ==
    \E r \in ExtractRequests :
        /\ Walked(r) /\ result[r].ok
        /\ loc[r].lang = Some("go")
        /\ LET syms == result[r].val IN
           \E i \in 1..Len(syms), j \in 1..Len(syms) :
               /\ IsAncestor(TreeOf(r), syms[i].node, syms[j].node)
               /\ syms[i].exported /\ ~syms[j].exported
               /\ syms[j].symbol_name = <<"_", "X">>

\* C9: extract_dependencies returns success with an empty sequence for every
\* path, also one of an unsupported extension or of no file; and the
\* dependencies of every symbol extract_symbols returns are empty.
C9_NoDependencies ==
    /\ \A r \in DepsRequests :
          Answered(r) =>
              /\ result[r] = Ok(<<>>)
              /\ resp[r] = [status |-> 200, body |-> [symbols |-> <<>>, success |-> TRUE]]
    /\ \A r \in ExtractRequests :
          (Answered(r) /\ result[r].ok) =>
              \A i \in 1..Len(result[r].val) : result[r].val[i].dependencies = <<>>

\* A dependency request answered for a path with no extension and no file.
C9_Witness ==
    \E r \in DepsRequests :
        /\ Answered(r)
        /\ ~FileOf(r).exists
        /\ ~Extension(FullPath(req[r])).some
        /\ resp[r].status = 200

\* The matched, named node of an answered extraction request on which
\* extract_signature returned an error.  extract_signature ends in Ok on its
\* only path, so the ? of the python and cpp rules and the .ok() of the
\* others never see an error: the case C11 is about has no state.
SignatureFails ==
    \E r \in ExtractRequests :
        /\ Walked(r)
        /\ \E n \in MatchedNamed(TreeOf(r), loc[r].lang.v) :
              ~ExtractSignature(TreeOf(r), n).ok

\* In every language every returned symbol carries the signature
\* extract_signature computed, and no extraction ends with an error other
\* than that of a name that does not decode.
SignaturePresent ==
    \A r \in ExtractRequests :
        Walked(r) =>
            /\ ~SignatureFails
            /\ ~result[r].ok => Undecodable(TreeOf(r), loc[r].lang.v) # {}
            /\ result[r].ok =>
                  \A i \in 1..Len(result[r].val) :
                      result[r].val[i].signature
                          = Some(ExtractSignature(TreeOf(r), result[r].val[i].node).val)

---------------------------------------------------------------------------
(* Specification Spec: requests of all three kinds running concurrently,   *)
(* step by step, on the files of one repository.                           *)

\* Number of concurrent requests.
MaxRequests == 2

RustFile ==
    File(<<"a", "\n", "b">>,
         [n |-> 3, parent |-> <<0, 1, 2>>,
          kind |-> <<"source_file", "function_item", "visibility_modifier">>,
          name |-> <<NoName, NameNode(TRUE, <<"f">>), NoName>>,
          srow |-> <<0, 0, 0>>, erow |-> <<1, 1, 0>>,
          text |-> <<NodeText, NodeText, NodeText>>])

PythonFile ==
    File(<<"a">>,
         [n |-> 3, parent |-> <<0, 1, 1>>,
          kind |-> <<"module", "function_definition", "class_definition">>,
          name |-> <<NoName, NameNode(TRUE, <<"g">>), NameNode(FALSE, <<>>)>>,
          srow |-> <<0, 0, 0>>, erow |-> <<0, 0, 0>>,
          text |-> <<NodeText, NodeText, NodeText>>])

JavaFile ==
    File(<<>>,
         [n |-> 3, parent |-> <<0, 1, 2>>,
          kind |-> <<"program", "class_declaration", "method_declaration">>,
          name |-> <<NoName, NameNode(TRUE, <<"B">>), NameNode(TRUE, <<"f">>)>>,
          srow |-> <<0, 0, 1>>, erow |-> <<2, 2, 1>>,
          text |-> <<NodeText, NodeText, NodeText>>])

TextPath == <<"m", ".", "t", "x", "t">>

\* The repository: a rust, a python and a java file and a text file; the go
\* file of the requests does not exist.
ServiceFiles ==
    [p \in {RepoPath \o <<"/">> \o fp :
               fp \in {Named(<<"r", "s">>), Named(<<"p", "y">>), Named(<<"j", "a", "v", "a">>),
                       Named(<<"g", "o">>), TextPath}} |->
        CASE p = RepoPath \o <<"/">> \o Named(<<"r", "s">>) -> RustFile
          [] p = RepoPath \o <<"/">> \o Named(<<"p", "y">>) -> PythonFile
          [] p = RepoPath \o <<"/">> \o Named(<<"j", "a", "v", "a">>) -> JavaFile
          [] p = RepoPath \o <<"/">> \o TextPath -> File(<<"a">>, SmallTree(None))
          [] OTHER -> NoFile]

ServiceRequests ==
    {Request("extract", RepoPath, fp, None, None) :
        fp \in {Named(<<"r", "s">>), Named(<<"p", "y">>), Named(<<"j", "a", "v", "a">>),
                Named(<<"g", "o">>), TextPath}}
    \cup {Request("deps", RepoPath, TextPath, None, None),
          Request("hash", RepoPath, Named(<<"r", "s">>), None, None),
          Request("hash", RepoPath, Named(<<"r", "s">>), Some(2), Some(1)),
          Request("hash", RepoPath, Named(<<"g", "o">>), None, None)}

Init == \E rs \in [1..MaxRequests -> ServiceRequests] : Start(rs, ServiceFiles)

Next ==
    \/ \E r \in DOMAIN req : StepDetect(r)
    \/ \E r \in DOMAIN req : StepLookup(r)
    \/ \E r \in DOMAIN req : StepRead(r)
    \/ \E r \in DOMAIN req : StepParse(r)
    \/ \E r \in DOMAIN req : StepWalk(r)
    \/ \E r \in DOMAIN req : StepReturn(r)
    \/ \E r \in DOMAIN req : StepDeps(r)
    \/ \E r \in DOMAIN req : StepHashRead(r)
    \/ \E r \in DOMAIN req : StepHash(r)

Spec == Init /\ [][Next]_vars

\* The Result of request r when its method runs from start to end with no
\* other request in the service.
Alone(r) ==
    CASE req[r].op = "extract" ->
            ExtractSymbols(NewParsers, FileOf(r), FullPath(req[r]))
      [] req[r].op = "deps" ->
            [res |-> ExtractDependencies(NewParsers, FileOf(r), FullPath(req[r])),
             collected |-> <<>>]
      [] OTHER ->
            [res |-> GetChunkHash(FileOf(r), req[r].start_line, req[r].end_line).res,
             collected |-> <<>>]

IsPrefix(s, t) == Len(s) <= Len(t) /\ SubSeq(t, 1, Len(s)) = s

\* C10: with requests running concurrently, in every interleaving of their
\* steps, the registry stays as ParserService::new built it, the outcome of
\* each request is the outcome the request has when run alone, and the
\* symbols a request has collected and returns are its own.
C10_Isolation ==
    /\ parsers = NewParsers
    /\ \A r \in DOMAIN req :
          /\ Answered(r) =>
                /\ result[r] = Alone(r).res
                /\ resp[r] = (IF req[r].op = "hash" THEN HashResponse(Alone(r).res)
                              ELSE ExtractResponse(Alone(r).res))
          /\ pc[r] = "walk" =>
                /\ IsPrefix(bufs[BufOf(r)], Alone(r).collected)
                /\ \A i \in 1..Len(bufs[BufOf(r)]) :
                      bufs[BufOf(r)][i].file_path = FullPath(req[r])

\* A request answered with its symbols while another request, on another
\* file, is in its walk with a symbol collected.
C10_Witness ==
    \E r1 \in DOMAIN req, r2 \in DOMAIN req :
        /\ r1 # r2
        /\ FullPath(req[r1]) # FullPath(req[r2])
        /\ Answered(r1) /\ result[r1].ok /\ req[r1].op = "extract"
        /\ Len(result[r1].val) >= 1
        /\ pc[r2] = "walk" /\ Len(bufs[BufOf(r2)]) >= 1

===========================================================================
